---- MODULE Spec2Model ----
(***************************************************************************)
(* The to-do panel of jupyterlab-todo-list: the TodoApp component          *)
(* (src/src/TodoApp.tsx) driven by the TodoPanel widget's load and save    *)
(* protocol (src/src/panel.tsx) against a local cache (IStateDB) and a     *)
(* remote REST endpoint.                                                   *)
(*                                                                         *)
(* One panel, attached once: Init is the state right after onAfterAttach   *)
(* rendered the component and its bootstrap effect issued the first GET.   *)
(* Every await of the code is a suspension point: the step before it       *)
(* issues the call, a later step delivers its outcome.  The effect of a    *)
(* write on a tier is applied when the write completes.                    *)
(***************************************************************************)
EXTENDS Integers, Sequences, FiniteSets, Bags, TLC

(* ---------------- bounds ---------------- *)
\* number of adds the user makes while the panel's loads and saves run
MaxAdds == 1
\* number of ids crypto.randomUUID() hands out (adds to the item list alone)
MaxStoreAdds == 2
\* number of saves that may be in flight at once
MaxSaves == 2
\* largest value Date.now() reaches
MaxTime == 1
\* the count of 404 responses saturates here
Max404 == 2

(* ---------------- values ---------------- *)
\* the pool crypto.randomUUID() draws from, in the order it hands them out
UuidPool == [i \in 1..MaxStoreAdds |-> <<"u", i>>]

\* what the user can type into the input boxes (sequences of characters)
TextInputs == { <<" ">>, <<" ", "a">> }

\* completedAt is optional: <<>> is undefined, <<t>> is the timestamp t
Undefined == <<>>

\* the item the notebook scanner reports (source = notebook)
NotebookTodo ==
  [id |-> <<"n", 1>>, text |-> <<"t">>, done |-> FALSE,
   completedAt |-> Undefined, source |-> "notebook"]

\* local cache payloads: nothing stored, something that is not a list, a list
Null == [kind |-> "null", list |-> <<>>]
Corrupt == [kind |-> "corrupt", list |-> <<>>]
ListPayload(l) == [kind |-> "list", list |-> l]

Callers == {"boot", "refresh"}

(* ---------------- pure helpers of the code ---------------- *)
RECURSIVE TrimStart(_)
TrimStart(s) ==
  IF s = <<>> THEN s
  ELSE IF Head(s) = " " THEN TrimStart(Tail(s)) ELSE s

RECURSIVE TrimEnd(_)
TrimEnd(s) ==
  IF s = <<>> THEN s
  ELSE IF s[Len(s)] = " " THEN TrimEnd(SubSeq(s, 1, Len(s) - 1)) ELSE s

\* String.prototype.trim
Trim(s) == TrimEnd(TrimStart(s))

IsNotebook(t) == t.source = "notebook"

\* _filterManualTodos with the filter forgotten
FilterManualTodosKeepsAll(todos) == todos

\* TodoPanel._filterManualTodos
FilterManualTodos(todos) == SelectSeq(todos, LAMBDA t : ~IsNotebook(t))

\* Array.isArray on a cache payload
IsArray(v) == v.kind = "list"

\* b.completedAt ?? 0
CompletedKey(t) == IF t.completedAt = Undefined THEN 0 ELSE t.completedAt[1]

\* one step of a stable sort by completedAt descending: x goes after every
\* element whose key is >= its own
RECURSIVE InsertByCompleted(_, _)
InsertByCompleted(x, s) ==
  IF s = <<>> THEN <<x>>
  ELSE IF CompletedKey(Head(s)) >= CompletedKey(x)
       THEN <<Head(s)>> \o InsertByCompleted(x, Tail(s))
       ELSE <<x>> \o s

\* Array.prototype.sort((a, b) => (b.completedAt ?? 0) - (a.completedAt ?? 0))
RECURSIVE SortCompleted(_)
SortCompleted(s) ==
  IF s = <<>> THEN s
  ELSE InsertByCompleted(s[Len(s)], SortCompleted(SubSeq(s, 1, Len(s) - 1)))

\* the state updater of add with one id for every item
AddItemSameId(prev, id, trimmed) ==
  << [id |-> <<"u", 1>>, text |-> trimmed, done |-> FALSE,
      completedAt |-> Undefined, source |-> "absent"] >> \o prev

\* the state updater of add
AddItem(prev, id, trimmed) ==
  << [id |-> id, text |-> trimmed, done |-> FALSE,
      completedAt |-> Undefined, source |-> "absent"] >> \o prev

\* the state updater of toggle without its partition and sort
ToggleItemInPlace(prev, id, t) ==
  [i \in 1..Len(prev) |->
     IF prev[i].id # id THEN prev[i]
     ELSE [prev[i] EXCEPT !.done = ~prev[i].done,
                          !.completedAt = IF ~prev[i].done THEN <<t>> ELSE Undefined]]

\* the state updater of toggle that leaves completedAt in place on un-completion
ToggleItemKeepsStamp(prev, id, t) ==
  LET flip(item) ==
        IF item.id # id THEN item
        ELSE [item EXCEPT !.done = ~item.done,
                          !.completedAt = IF ~item.done THEN <<t>> ELSE item.completedAt]
      next == [i \in 1..Len(prev) |-> flip(prev[i])]
      pending == SelectSeq(next, LAMBDA item : ~item.done)
      completed == SortCompleted(SelectSeq(next, LAMBDA item : item.done))
  IN pending \o completed

\* the state updater of toggle
ToggleItem(prev, id, t) ==
  LET flip(item) ==
        IF item.id # id THEN item
        ELSE [item EXCEPT !.done = ~item.done,
                          !.completedAt = IF ~item.done THEN <<t>> ELSE Undefined]
      next == [i \in 1..Len(prev) |-> flip(prev[i])]
      pending == SelectSeq(next, LAMBDA item : ~item.done)
      completed == SortCompleted(SelectSeq(next, LAMBDA item : item.done))
  IN pending \o completed

\* the state updater of remove
RemoveItem(prev, id) == SelectSeq(prev, LAMBDA item : item.id # id)

\* the state updater of submitEdit rebuilding the item as add builds one
EditItemAsNew(prev, id, trimmed) ==
  [i \in 1..Len(prev) |->
     IF prev[i].id = id
     THEN [prev[i] EXCEPT !.text = trimmed, !.done = FALSE, !.completedAt = Undefined]
     ELSE prev[i]]

\* the state updater of submitEdit
EditItem(prev, id, trimmed) ==
  [i \in 1..Len(prev) |->
     IF prev[i].id = id THEN [prev[i] EXCEPT !.text = trimmed] ELSE prev[i]]

\* the visibleItems memo without the test of the flag
VisibleItemsAlwaysFiltered(list, show) ==
  SelectSeq(list, LAMBDA item : ~IsNotebook(item))

\* the visibleItems memo
VisibleItems(list, show) ==
  IF show THEN list ELSE SelectSeq(list, LAMBDA item : ~IsNotebook(item))

\* _handleEndpointMissing taking every error for a missing endpoint
IsEndpointMissingAnyError(err) == TRUE

\* TodoPanel._handleEndpointMissing: its return value
IsEndpointMissing(err) == err = "404"

ItemIds(list) == { list[i].id : i \in 1..Len(list) }

ItemById(list, id) == list[CHOOSE i \in 1..Len(list) : list[i].id = id]

(* ---------------- state ---------------- *)
VARIABLES
  items,             \* TodoApp: useState<Todo[]>
  initialized,       \* TodoApp: useState(false)
  editingId,         \* TodoApp: <<>> is null, <<id>> an open edit session
  editText,          \* TodoApp: what startEdit put into the edit input box
  refreshState,      \* TodoApp: 'idle' | 'refreshing' | 'completed'
  timerRef,          \* TodoApp: refreshCompletionTimeout.current ({} is null)
  timers,            \* handles of the timeouts pending in the event loop
  mounted,           \* the component is rendered in the panel's root
  cancelled,         \* the bootstrap effect's cancelled flag
  loads,             \* per caller: the _loadTodos call it awaits
  saves,             \* the bag of _saveTodos calls in flight
  cache,             \* the local cache entry under the storage key
  remote,            \* the items the REST endpoint stores
  endpointMissing,   \* TodoPanel._endpointMissing
  showNotebookTodos, \* TodoPanel._showNotebookTodos
  now,               \* Date.now()
  nextUuid,          \* how many ids crypto.randomUUID() has handed out
  log,               \* what the last step wrote to the console
  missingNotices,    \* console lines 'server endpoint not available ...'
  notFoundSeen       \* 404 responses handled so far (saturates at Max404)

vars ==
  << items, initialized, editingId, editText, refreshState, timerRef,
     timers, mounted, cancelled, loads, saves, cache, remote, endpointMissing,
     showNotebookTodos, now, nextUuid, log, missingNotices, notFoundSeen >>

appVars == << items, initialized, editingId, editText >>
refreshVars == << refreshState, timerRef, timers >>
panelVars == << cache, remote, endpointMissing, missingNotices, notFoundSeen >>

\* no _loadTodos call in flight: not started, or returned
NoLoad == [pc |-> "none", incl |-> FALSE, payload |-> <<>>]

\* _loadFromServer up to its first await: the GET is issued, with
\* include_notebook_todos=0 unless the setting is on
LoadCall(show) == [pc |-> "get", incl |-> show, payload |-> <<>>]

\* _saveTodos up to its first await: the local write is issued
SaveCall(todos) == [pc |-> "local", todos |-> FilterManualTodos(todos)]

Init ==
  /\ items = <<>>
  /\ initialized = FALSE
  /\ editingId = <<>>
  /\ editText = <<>>
  /\ refreshState = "idle"
  /\ timerRef = {}
  /\ timers = {}
  /\ mounted = TRUE
  /\ cancelled = FALSE
  /\ showNotebookTodos \in BOOLEAN
  /\ loads = [w \in Callers |->
                IF w = "boot" THEN LoadCall(showNotebookTodos) ELSE NoLoad]
  /\ saves = EmptyBag
  /\ cache \in {Null, Corrupt}
  /\ remote = <<>>
  /\ endpointMissing = FALSE
  /\ now = 0
  /\ nextUuid = 0
  /\ log = <<>>
  /\ missingNotices = 0
  /\ notFoundSeen = 0

(* ---------------- TodoApp: effects ---------------- *)
\* the save effect without its early return
SaveEffectRunsUnguarded(init) == TRUE

\* the save effect's early return: `if (!initialized) return;`
SaveEffectRuns(init) == init

\* a render that changed items or initialized runs the save effect
SaveEffect(newItems, newInit) ==
  IF mounted /\ SaveEffectRuns(newInit)
  THEN saves' = saves (+) SetToBag({SaveCall(newItems)})
  ELSE UNCHANGED saves

\* the bound on saves in flight
SaveRoom(newInit) ==
  (mounted /\ SaveEffectRuns(newInit)) => BagCardinality(saves) < MaxSaves

\* setItems(...) in an event handler, and the render and effects it causes
SetItems(newItems) ==
  /\ SaveRoom(initialized)
  /\ items' = newItems
  /\ SaveEffect(newItems, initialized)

(* ---------------- TodoApp: the callbacks ---------------- *)
\* handleSubmit -> add, with text the content of the new-task input box; the
\* box holds whatever the user typed last (onChange -> setText), and add's
\* setText('') only empties it for the next typing
Add(text) ==
  /\ mounted
  /\ LET trimmed == Trim(text) IN
       IF trimmed = <<>>
       THEN UNCHANGED << items, saves, nextUuid >>
       ELSE /\ nextUuid < Len(UuidPool)
            /\ nextUuid' = nextUuid + 1
            /\ SetItems(AddItem(items, UuidPool[nextUuid + 1], trimmed))
  /\ log' = <<>>
  /\ UNCHANGED << initialized, editingId, editText, refreshVars, mounted,
                  cancelled, loads, panelVars, showNotebookTodos, now >>

\* toggle(id); Date.now() does not run backwards
Toggle(id) ==
  /\ mounted
  /\ \E t \in now..(IF now < MaxTime THEN now + 1 ELSE now) :
       /\ now' = t
       /\ SetItems(ToggleItem(items, id, t))
  /\ log' = <<>>
  /\ UNCHANGED << initialized, editingId, editText, refreshVars, mounted,
                  cancelled, loads, panelVars, showNotebookTodos, nextUuid >>

\* remove(id)
Remove(id) ==
  /\ mounted
  /\ SetItems(RemoveItem(items, id))
  /\ log' = <<>>
  /\ UNCHANGED << initialized, editingId, editText, refreshVars, mounted,
                  cancelled, loads, panelVars, showNotebookTodos, now, nextUuid >>

\* startEdit(todo)
StartEdit(todo) ==
  /\ mounted
  /\ IF todo.done
     THEN UNCHANGED << editingId, editText >>
     ELSE /\ editingId' = << todo.id >>
          /\ editText' = todo.text
  /\ log' = <<>>
  /\ UNCHANGED << items, initialized, refreshVars, mounted, cancelled,
                  loads, saves, panelVars, showNotebookTodos, now, nextUuid >>

\* cancelEdit()
CancelEdit ==
  /\ mounted
  /\ editingId' = <<>>
  /\ editText' = <<>>
  /\ log' = <<>>
  /\ UNCHANGED << items, initialized, refreshVars, mounted, cancelled,
                  loads, saves, panelVars, showNotebookTodos, now, nextUuid >>

\* submitEdit(), with text the content of the edit input box: what startEdit
\* put there (editText) or whatever the user typed since (handleEditChange)
SubmitEdit(text) ==
  /\ mounted
  /\ IF editingId = <<>>
     THEN UNCHANGED << items, saves, editingId, editText >>
     ELSE LET trimmed == Trim(text) IN
          /\ IF trimmed = <<>>
             THEN UNCHANGED << items, saves >>
             ELSE SetItems(EditItem(items, editingId[1], trimmed))
          /\ editingId' = <<>>
          /\ editText' = <<>>
  /\ log' = <<>>
  /\ UNCHANGED << initialized, refreshVars, mounted, cancelled, loads,
                  panelVars, showNotebookTodos, now, nextUuid >>

(* ---------------- TodoApp: what the awaited load resumes ---------------- *)
\* refresh's finally block with the test of succeeded inverted
RefreshSettledInverted(succeeded) == IF succeeded THEN "idle" ELSE "completed"

\* refresh's finally block: the state it sets
RefreshSettled(succeeded) == IF succeeded THEN "completed" ELSE "idle"

\* setTimeout returns a handle that is not in use
NewHandle ==
  CHOOSE h \in 1..(Cardinality(timers \cup timerRef) + 1) :
    /\ h \notin timers \cup timerRef
    /\ \A g \in 1..(h - 1) : g \in timers \cup timerRef

\* bootstrap after `await loadTodos()` returned stored
BootstrapResume(stored, pre) ==
  /\ IF ~cancelled
     THEN /\ SaveRoom(TRUE)
          /\ items' = stored
          /\ initialized' = TRUE
          /\ SaveEffect(stored, TRUE)
          /\ log' = pre \o <<"loaded">>
     ELSE /\ UNCHANGED << items, initialized, saves >>
          /\ log' = pre
  /\ UNCHANGED refreshVars

\* refresh after `await loadTodos()` returned next
RefreshResume(next, pre) ==
  /\ SaveRoom(initialized)
  /\ items' = next
  /\ SaveEffect(next, initialized)
  /\ log' = pre \o <<"refreshed">>
  /\ refreshState' = RefreshSettled(TRUE)
  /\ IF RefreshSettled(TRUE) = "completed"
     THEN /\ timers' = timers \cup {NewHandle}
          /\ timerRef' = {NewHandle}
     ELSE UNCHANGED << timers, timerRef >>
  /\ UNCHANGED initialized

\* _loadTodos returns value to the caller awaiting it
Deliver(w, value, pre) ==
  /\ loads' = [loads EXCEPT ![w] = NoLoad]
  /\ IF w = "boot" THEN BootstrapResume(value, pre) ELSE RefreshResume(value, pre)

\* bootstrap when `await loadTodos()` throws: its catch and finally blocks
BootstrapReject(pre) ==
  /\ IF ~cancelled
     THEN /\ SaveRoom(TRUE)
          /\ initialized' = TRUE
          /\ SaveEffect(items, TRUE)
     ELSE UNCHANGED << initialized, saves >>
  /\ log' = pre \o <<"failed to bootstrap todos">>
  /\ UNCHANGED << items, refreshVars >>

\* refresh when `await loadTodos()` throws: its catch and finally blocks
RefreshReject(pre) ==
  /\ log' = pre \o <<"failed to refresh todos">>
  /\ refreshState' = RefreshSettled(FALSE)
  /\ IF RefreshSettled(FALSE) = "completed"
     THEN /\ timers' = timers \cup {NewHandle}
          /\ timerRef' = {NewHandle}
     ELSE UNCHANGED << timers, timerRef >>
  /\ UNCHANGED << items, initialized, saves >>

\* _loadTodos throws to the caller awaiting it
Reject(w, pre) ==
  /\ loads' = [loads EXCEPT ![w] = NoLoad]
  /\ IF w = "boot" THEN BootstrapReject(pre) ELSE RefreshReject(pre)

(* ---------------- TodoPanel: the load protocol ---------------- *)
\* _handleEndpointMissing without the test of the sticky flag
EndpointMissingLogEveryTime(flag) == <<"endpoint-missing">>

\* _handleEndpointMissing: what it logs when the error is a 404
EndpointMissingLog(flag) == IF ~flag THEN <<"endpoint-missing">> ELSE <<>>

\* _handleEndpointMissing on a 404
HandleEndpointMissing ==
  /\ endpointMissing' = TRUE
  /\ missingNotices' = missingNotices + Len(EndpointMissingLog(endpointMissing))
  /\ notFoundSeen' = IF notFoundSeen < Max404 THEN notFoundSeen + 1 ELSE notFoundSeen

\* the body of a successful GET: the stored items, then the scanner's unless
\* the request carried include_notebook_todos=0
GetResponse(incl) == remote \o (IF incl THEN <<NotebookTodo>> ELSE <<>>)

\* the catch block of _loadFromServer: what it logs
LoadServerCatchLog(err) ==
  IF IsEndpointMissing(err) THEN EndpointMissingLog(endpointMissing)
  ELSE <<"failed to load todos from server">>

\* _loadFromServer resumes after the GET
LoadGetDone(w, outcome) ==
  /\ loads[w].pc = "get"
  /\ CASE outcome = "ok" ->
            /\ loads' = [loads EXCEPT ![w] =
                 [pc |-> "cachewrite", incl |-> @.incl,
                  payload |-> GetResponse(loads[w].incl)]]
            /\ log' = <<>>
            /\ UNCHANGED << items, initialized, saves, refreshVars, endpointMissing,
                            missingNotices, notFoundSeen >>
       [] outcome = "malformed" ->
            /\ Deliver(w, <<>>, <<>>)
            /\ UNCHANGED << endpointMissing, missingNotices, notFoundSeen >>
       [] outcome = "404" ->
            /\ HandleEndpointMissing
            /\ loads' = [loads EXCEPT ![w] = [pc |-> "fetch", incl |-> @.incl, payload |-> <<>>]]
            /\ log' = LoadServerCatchLog(outcome)
            /\ UNCHANGED << items, initialized, saves, refreshVars >>
       [] OTHER ->
            /\ loads' = [loads EXCEPT ![w] = [pc |-> "fetch", incl |-> @.incl, payload |-> <<>>]]
            /\ log' = LoadServerCatchLog(outcome)
            /\ UNCHANGED << items, initialized, saves, refreshVars, endpointMissing,
                            missingNotices, notFoundSeen >>
  /\ UNCHANGED << editingId, editText, mounted, cancelled, cache, remote,
                  showNotebookTodos, now, nextUuid >>

\* _loadFromServer resumes after `await this._state.save(...)`: it returns
\* payload.items, or lands in its catch block when the write threw
LoadCacheWriteDone(w, written) ==
  /\ loads[w].pc = "cachewrite"
  /\ IF written
     THEN /\ cache' = ListPayload(FilterManualTodos(loads[w].payload))
          /\ Deliver(w, loads[w].payload, <<>>)
     ELSE /\ loads' = [loads EXCEPT ![w] = [pc |-> "fetch", incl |-> @.incl, payload |-> <<>>]]
          /\ log' = LoadServerCatchLog("throw")
          /\ UNCHANGED << cache, items, initialized, saves, refreshVars >>
  /\ UNCHANGED << editingId, editText, mounted, cancelled, remote,
                  endpointMissing, missingNotices, notFoundSeen,
                  showNotebookTodos, now, nextUuid >>

\* _loadFromState that returns [] whatever the cache holds
LoadFromStateValueEmpty(stored) == <<>>

\* _loadFromState: what it returns for the payload the cache holds
LoadFromStateValue(stored) == IF IsArray(stored) THEN stored.list ELSE <<>>

\* _loadFromState with its await outside the try block
LoadFromStateRethrows == FALSE

\* _loadFromState: `await this._state.fetch(...)` stands inside try ... catch
LoadFromStateCatches == TRUE

\* _loadFromState resumes after `await this._state.fetch(...)`; a throw that
\* nothing caught would pass through _loadTodos to the caller
LoadFetchDone(w, outcome) ==
  /\ loads[w].pc = "fetch"
  /\ IF outcome = "value"
     THEN Deliver(w, LoadFromStateValue(cache), <<>>)
     ELSE IF LoadFromStateCatches
          THEN Deliver(w, <<>>, <<"failed to load todos from local cache">>)
          ELSE Reject(w, <<>>)
  /\ UNCHANGED << editingId, editText, mounted, cancelled, panelVars,
                  showNotebookTodos, now, nextUuid >>

(* ---------------- TodoPanel: the save protocol ---------------- *)
\* _saveTodos with the local write outside its try block: a write that throws
\* ends the save
SaveAbortsOnLocalFailure(s, written) ==
  IF written THEN { [s EXCEPT !.pc = "put"] } ELSE {}

\* _saveTodos after the local write: the write returned or its catch block
\* logged the throw, and the PUT is issued
SaveAfterLocalWrite(s, written) == { [s EXCEPT !.pc = "put"] }

\* _saveTodos resumes after `await this._state.save(...)` and issues the PUT
SaveLocalDone(s, written) ==
  /\ BagIn(s, saves)
  /\ s.pc = "local"
  /\ IF written
     THEN /\ cache' = ListPayload(s.todos)
          /\ log' = <<>>
     ELSE /\ UNCHANGED cache
          /\ log' = <<"failed to save todos locally">>
  /\ saves' = (saves (-) SetToBag({s})) (+) SetToBag(SaveAfterLocalWrite(s, written))
  /\ UNCHANGED << appVars, refreshVars, mounted, cancelled, loads, remote,
                  endpointMissing, missingNotices, notFoundSeen,
                  showNotebookTodos, now, nextUuid >>

\* the catch block of the PUT: what it logs
SaveServerCatchLog(err) ==
  IF IsEndpointMissing(err) THEN EndpointMissingLog(endpointMissing)
  ELSE <<"failed to save todos to server">>

\* _saveTodos resumes after the PUT
SavePutDone(s, outcome) ==
  /\ BagIn(s, saves)
  /\ s.pc = "put"
  /\ CASE outcome = "ok" ->
            /\ remote' = s.todos
            /\ log' = <<>>
            /\ UNCHANGED << endpointMissing, missingNotices, notFoundSeen >>
       [] outcome = "404" ->
            /\ HandleEndpointMissing
            /\ log' = SaveServerCatchLog(outcome)
            /\ UNCHANGED remote
       [] OTHER ->
            /\ log' = SaveServerCatchLog(outcome)
            /\ UNCHANGED << remote, endpointMissing, missingNotices, notFoundSeen >>
  /\ saves' = saves (-) SetToBag({s})
  /\ UNCHANGED << appVars, refreshVars, mounted, cancelled, loads, cache,
                  showNotebookTodos, now, nextUuid >>

(* ---------------- TodoApp: refresh, timer, teardown ---------------- *)
\* refresh() up to `await loadTodos()` without the clearTimeout at its start
RefreshKeepsTimer ==
  /\ refreshState' = "refreshing"
  /\ loads' = [loads EXCEPT !["refresh"] = LoadCall(showNotebookTodos)]
  /\ log' = <<>>
  /\ UNCHANGED << appVars, timers, timerRef, mounted, cancelled, saves,
                  panelVars, showNotebookTodos, now, nextUuid >>

\* refresh() up to `await loadTodos()`
Refresh ==
  /\ timers' = timers \ timerRef
  /\ timerRef' = {}
  /\ refreshState' = "refreshing"
  /\ loads' = [loads EXCEPT !["refresh"] = LoadCall(showNotebookTodos)]
  /\ log' = <<>>
  /\ UNCHANGED << appVars, mounted, cancelled, saves, panelVars,
                  showNotebookTodos, now, nextUuid >>

\* the timeout callback without its setRefreshState('idle')
TimerFireKeepsState(h) ==
  /\ h \in timers
  /\ timers' = timers \ {h}
  /\ timerRef' = {}
  /\ log' = <<>>
  /\ UNCHANGED << appVars, refreshState, mounted, cancelled, loads, saves,
                  panelVars, showNotebookTodos, now, nextUuid >>

\* the timeout callback armed by refresh
TimerFire(h) ==
  /\ h \in timers
  /\ timers' = timers \ {h}
  /\ refreshState' = "idle"
  /\ timerRef' = {}
  /\ log' = <<>>
  /\ UNCHANGED << appVars, mounted, cancelled, loads, saves, panelVars,
                  showNotebookTodos, now, nextUuid >>

\* onBeforeDetach: root.unmount() runs the effects' cleanups
Detach ==
  /\ mounted
  /\ mounted' = FALSE
  /\ cancelled' = TRUE
  /\ timers' = timers \ timerRef
  /\ timerRef' = {}
  /\ log' = <<>>
  /\ UNCHANGED << appVars, refreshState, loads, saves, panelVars,
                  showNotebookTodos, now, nextUuid >>

\* TodoPanel.setShowNotebookTodos
SetShowNotebookTodos(b) ==
  /\ showNotebookTodos # b
  /\ showNotebookTodos' = b
  /\ log' = <<>>
  /\ UNCHANGED << appVars, refreshVars, mounted, cancelled, loads, saves,
                  panelVars, now, nextUuid >>

(* ---------------- the rendered controls ---------------- *)
Visible == VisibleItems(items, showNotebookTodos)

IsVisible(id) == id \in ItemIds(Visible)

\* disabled={disableInteractions} on the checkbox
ClickCheckbox(id) ==
  /\ IsVisible(id)
  /\ ~(IsNotebook(ItemById(items, id)) \/ editingId = <<id>>)
  /\ Toggle(id)

\* confirmAndRemove(todo), with confirmed the answer to window.confirm
ConfirmAndRemove(id, confirmed) ==
  IF confirmed
  THEN Remove(id)
  ELSE /\ mounted
       /\ log' = <<>>
       /\ UNCHANGED << appVars, refreshVars, mounted, cancelled, loads, saves,
                       panelVars, showNotebookTodos, now, nextUuid >>

\* the Delete button, rendered for manual items only
ClickDelete(id) ==
  /\ IsVisible(id)
  /\ ~IsNotebook(ItemById(items, id))
  /\ \E confirmed \in BOOLEAN : ConfirmAndRemove(id, confirmed)

\* the Edit button: showEditButton, and the item is not being edited
ClickEdit(id) ==
  /\ IsVisible(id)
  /\ LET item == ItemById(items, id) IN
       /\ ~item.done /\ ~IsNotebook(item)
       /\ editingId # <<id>>
       /\ StartEdit(item)

\* the edit form is rendered inside the row of the item being edited
EditFormShown == \E id \in ItemIds(Visible) : editingId = <<id>>

\* the Save button of the edit form -> handleEditSubmit
ClickSave(text) == EditFormShown /\ SubmitEdit(text)

\* the Cancel button and the Escape key of the edit form
ClickCancel == EditFormShown /\ CancelEdit

\* the refresh button: disabled={showNotebookTodos ? isRefreshing : true}
ClickRefresh ==
  /\ mounted
  /\ showNotebookTodos
  /\ refreshState # "refreshing"
  /\ Refresh

(* ---------------- the environment's steps ---------------- *)
GetOutcomes == {"ok", "malformed", "404", "500", "throw"}
PutOutcomes == {"ok", "404", "500", "throw"}

LoadStep ==
  \E w \in Callers :
    \/ \E o \in GetOutcomes : LoadGetDone(w, o)
    \/ \E b \in BOOLEAN : LoadCacheWriteDone(w, b)
    \/ \E o \in {"value", "throw"} : LoadFetchDone(w, o)

SaveStep ==
  \E s \in BagToSet(saves) :
    \/ \E b \in BOOLEAN : SaveLocalDone(s, b)
    \/ \E o \in PutOutcomes : SavePutDone(s, o)

TimerStep == \E h \in timers : TimerFire(h)

SettingStep == \E b \in BOOLEAN : SetShowNotebookTodos(b)

(* ---------------- the panel as the user drives it ---------------- *)
\* the bound on adds made while loads and saves run
AddRoom(text) == Trim(text) # <<>> => nextUuid < MaxAdds

Next ==
  \/ \E t \in TextInputs : AddRoom(t) /\ Add(t)
  \/ \E id \in ItemIds(items) : ClickCheckbox(id)
  \/ \E id \in ItemIds(items) : ClickDelete(id)
  \/ \E id \in ItemIds(items) : ClickEdit(id)
  \/ \E t \in TextInputs \cup {editText} : ClickSave(t)
  \/ ClickCancel
  \/ ClickRefresh
  \/ TimerStep
  \/ Detach
  \/ SettingStep
  \/ LoadStep
  \/ SaveStep

Spec == Init /\ [][Next]_vars

(* ---------------- the callbacks applied to any id ---------------- *)
\* an id no item carries
UnknownId == <<"x", 1>>

AnyId == ItemIds(items) \cup {UnknownId}

CoreNext ==
  \/ \E t \in TextInputs : AddRoom(t) /\ Add(t)
  \/ \E id \in AnyId : Toggle(id)
  \/ \E id \in AnyId : Remove(id)
  \/ \E i \in 1..Len(items) : StartEdit(items[i])
  \/ \E t \in TextInputs \cup {editText} : SubmitEdit(t)
  \/ CancelEdit
  \/ LoadStep
  \/ SaveStep

CoreSpec == Init /\ [][CoreNext]_vars

(* ---------------- the item list alone ---------------- *)
\* what the user can type into the edit input box
EditInputs == TextInputs \cup { <<"b", " ">> }

\* The callbacks applied in any order to the list the component starts with,
\* the empty list, while the initial load is still in flight.
StoreNext ==
  \/ \E t \in TextInputs : Add(t)
  \/ \E id \in AnyId : Toggle(id)
  \/ \E id \in AnyId : Remove(id)
  \/ \E i \in 1..Len(items) : StartEdit(items[i])
  \/ \E t \in EditInputs \cup {editText} : SubmitEdit(t)
  \/ CancelEdit

StoreSpec == Init /\ [][StoreNext]_vars

(* ---------------- the panel when neither tier ever fails ---------------- *)
ReliableLoadStep ==
  \E w \in Callers : LoadGetDone(w, "ok") \/ LoadCacheWriteDone(w, TRUE)

ReliableSaveStep ==
  \E s \in BagToSet(saves) : SaveLocalDone(s, TRUE) \/ SavePutDone(s, "ok")

ReliableNext ==
  \/ \E t \in TextInputs : AddRoom(t) /\ Add(t)
  \/ \E id \in ItemIds(items) : ClickCheckbox(id)
  \/ \E id \in ItemIds(items) : ClickDelete(id)
  \/ \E id \in ItemIds(items) : ClickEdit(id)
  \/ \E t \in TextInputs \cup {editText} : ClickSave(t)
  \/ ClickCancel
  \/ ClickRefresh
  \/ TimerStep
  \/ SettingStep
  \/ ReliableLoadStep
  \/ ReliableSaveStep

ReliableSpec == Init /\ [][ReliableNext]_vars

(* ---------------- the panel until the initial load completes ---------------- *)
\* Every state the panel reaches while the bootstrap's load is in flight, and
\* the state its completion leaves.  No step of a save is listed: a save can
\* only step once one was started.
InitialLoadPending == loads["boot"].pc # "none"

BootNext ==
  \/ InitialLoadPending /\ \E t \in TextInputs : AddRoom(t) /\ Add(t)
  \/ InitialLoadPending /\ \E id \in ItemIds(items) : ClickCheckbox(id)
  \/ InitialLoadPending /\ \E id \in ItemIds(items) : ClickDelete(id)
  \/ InitialLoadPending /\ \E id \in ItemIds(items) : ClickEdit(id)
  \/ InitialLoadPending /\ \E t \in TextInputs \cup {editText} : ClickSave(t)
  \/ InitialLoadPending /\ ClickCancel
  \/ InitialLoadPending /\ ClickRefresh
  \/ InitialLoadPending /\ TimerStep
  \/ InitialLoadPending /\ Detach
  \/ InitialLoadPending /\ SettingStep
  \/ InitialLoadPending /\ LoadStep

BootSpec == Init /\ [][BootNext]_vars

(* ---------------- the panel under any changes of the list ---------------- *)
\* The load and save protocol reads nothing of an item but its source, so the
\* list is changed here to any list over one manual and one notebook item:
\* whatever add, toggle, remove and submitEdit do to the list is a setItems
\* followed by the save effect.
ManualTodo ==
  [id |-> UuidPool[1], text |-> <<"a">>, done |-> FALSE,
   completedAt |-> Undefined, source |-> "absent"]

ListUniverse == { <<>>, <<ManualTodo>>, <<NotebookTodo>>, <<ManualTodo, NotebookTodo>> }

\* an event handler's setItems(...) with any resulting list
AnyMutation(list) ==
  /\ mounted
  /\ SetItems(list)
  /\ log' = <<>>
  /\ UNCHANGED << initialized, editingId, editText, refreshVars, mounted,
                  cancelled, loads, panelVars, showNotebookTodos, now, nextUuid >>

PanelNext ==
  \/ \E list \in ListUniverse : AnyMutation(list)
  \/ ClickRefresh
  \/ TimerStep
  \/ Detach
  \/ SettingStep
  \/ LoadStep
  \/ SaveStep

PanelSpec == Init /\ [][PanelNext]_vars

(* ---------------- requests that are answered, timers that fire ---------------- *)
\* a step of the _loadTodos call refresh awaits
RefreshLoadStep ==
  \/ \E o \in GetOutcomes : LoadGetDone("refresh", o)
  \/ \E b \in BOOLEAN : LoadCacheWriteDone("refresh", b)
  \/ \E o \in {"value", "throw"} : LoadFetchDone("refresh", o)

\* Every request and every cache access of a save is answered, an armed timer
\* fires unless it is cleared, and the load refresh awaits goes on whenever
\* it can again and again (its return waits while the bound on saves in
\* flight is reached).
FairPanelSpec ==
  /\ PanelSpec
  /\ WF_vars(SaveStep)
  /\ WF_vars(TimerStep)
  /\ SF_vars(RefreshLoadStep)

(* ---------------- save, then load, with the remote absent ---------------- *)
\* Every request to the REST endpoint answers 404 and the local cache accepts
\* every read and write.  The list changes and a refresh starts only when no
\* save is in flight, and the list is left alone while a refresh runs, so a
\* refresh's load follows the completed save of the list it replaces.
RoundTripNext ==
  \/ \E list \in ListUniverse :
       /\ saves = EmptyBag
       /\ loads["refresh"].pc = "none"
       /\ AnyMutation(list)
  \/ saves = EmptyBag /\ ClickRefresh
  \/ TimerStep
  \/ SettingStep
  \/ \E w \in Callers : LoadGetDone(w, "404") \/ LoadFetchDone(w, "value")
  \/ \E s \in BagToSet(saves) : SaveLocalDone(s, TRUE) \/ SavePutDone(s, "404")

RoundTripSpec == Init /\ [][RoundTripNext]_vars

(* ---------------- the panel while the remote read fails ---------------- *)
\* Every GET fails with an error that is not a 404 (a 500 response or a
\* request that throws); the local cache and the PUT behave in any way.
OutageNext ==
  \/ \E list \in ListUniverse : AnyMutation(list)
  \/ ClickRefresh
  \/ TimerStep
  \/ Detach
  \/ SettingStep
  \/ \E w \in Callers : \E o \in {"500", "throw"} : LoadGetDone(w, o)
  \/ \E w \in Callers : \E o \in {"value", "throw"} : LoadFetchDone(w, o)
  \/ SaveStep

OutageSpec == Init /\ [][OutageNext]_vars

(* ======================= the claims ======================= *)

\* C1: toggle(id) and remove(id) applied to the id of a notebook-derived item
\* leave the list as it was.
NotebookToggleRemoveNoOp ==
  [][\A id \in ItemIds(items) :
       (IsNotebook(ItemById(items, id)) /\ (Toggle(id) \/ Remove(id)))
         => items' = items]_vars

\* C2: after teardown no load that resolves changes the item list, the
\* initialized flag or the refresh state.
TeardownDiscardsLoads ==
  [][~mounted => UNCHANGED << items, initialized, refreshState >>]_vars

\* C3: after teardown no refresh-completion timer is pending.
NoTimerAfterTeardown == ~mounted => timers = {}

\* C4: once every in-flight save has completed, the local cache and the remote
\* store each hold the manual-only subset of the current in-memory list
\* (checked where both tiers accept every write).
LatestSnapshotWins ==
  (mounted /\ initialized /\ saves = EmptyBag)
    => /\ cache = ListPayload(FilterManualTodos(items))
       /\ remote = FilterManualTodos(items)

\* C5: a manual item leaves the in-memory list only in a step that removes
\* its own id.
ManualItemsLeaveOnlyByRemove ==
  [][\A id \in ItemIds(FilterManualTodos(items)) :
       id \notin ItemIds(items') => Remove(id)]_vars

\* what the caller w of _loadTodos does with the value v when the load returns
\* it in this step
LoadReturns(w, v) ==
  /\ loads'[w].pc = "none"
  /\ (w = "refresh" \/ ~cancelled) => items' = v

\* C6: once the GET succeeded with a well-formed collection, the load returns
\* that collection whatever the outcome of the local cache write, and a
\* successful write leaves the manual-only subset in the cache.
RemoteCollectionReturned ==
  [][\A w \in Callers : \A written \in BOOLEAN :
       LoadCacheWriteDone(w, written)
         => /\ LoadReturns(w, loads[w].payload)
            /\ written => cache' = ListPayload(FilterManualTodos(loads[w].payload))]_vars

\* C7 as claimed: a refresh whose remote read failed and whose local cache read
\* threw goes from refreshing directly to idle, never to completed.
FailedRefreshGoesIdle ==
  [][LoadFetchDone("refresh", "throw") => refreshState' = "idle"]_vars

\* the refresh's load resolves in this step
RefreshLoadResolves == loads["refresh"].pc # "none" /\ loads'["refresh"].pc = "none"

\* C7 as amended: the refresh state leaves refreshing exactly when the
\* refresh's load resolves, and then always for completed, also when both tiers
\* failed; it never goes from refreshing directly to idle.
RefreshCompletesWhenLoadResolves ==
  [][/\ RefreshLoadResolves => (refreshState = "refreshing" /\ refreshState' = "completed")
     /\ (refreshState = "refreshing" /\ refreshState' # "refreshing") => RefreshLoadResolves
     /\ (refreshState # "completed" /\ refreshState' = "completed") => RefreshLoadResolves]_vars

\* C7 witness: a refresh has just entered completed although the remote read
\* failed and the local cache read threw.
CompletedAfterBothTiersFailed ==
  /\ refreshState = "completed"
  /\ log = <<"failed to load todos from local cache", "refreshed">>

\* C8: while the initial load has not completed, no save is in flight.
NoSaveBeforeInitialLoad == loads["boot"].pc # "none" => saves = EmptyBag

\* C8 witness: the user has added an item and completed it while the initial
\* load is in flight.
MutatedDuringInitialLoad ==
  /\ loads["boot"].pc # "none"
  /\ mounted
  /\ \E i \in 1..Len(items) : items[i].id = UuidPool[1] /\ items[i].done

HasNotebook(list) == \E i \in 1..Len(list) : IsNotebook(list[i])

\* C9: the local cache, every save's payload (the local write and the PUT
\* body) and the remote store hold no item with source = notebook.
NotebookNeverPersisted ==
  /\ IsArray(cache) => ~HasNotebook(cache.list)
  /\ \A s \in BagToSet(saves) : ~HasNotebook(s.todos)
  /\ ~HasNotebook(remote)

\* C9 witness: the list mixes a notebook and a manual item, and a save of it
\* is about to PUT its payload.
MixedListBeingSaved ==
  /\ HasNotebook(items)
  /\ FilterManualTodos(items) # <<>>
  /\ \E s \in BagToSet(saves) : s.pc = "put" /\ s.todos = FilterManualTodos(items)

\* a 404 response is handled in this step
NotFoundStep ==
  \/ \E w \in Callers : LoadGetDone(w, "404")
  \/ \E s \in BagToSet(saves) : SavePutDone(s, "404")

\* C10: the first 404 logs the notice and nothing else, every later 404 logs
\* nothing, the sticky flag never returns to false, and the notice is on the
\* console at most once.
EndpointMissingLoggedOnce ==
  [][/\ endpointMissing => endpointMissing'
     /\ NotFoundStep =>
          /\ endpointMissing'
          /\ log' = IF endpointMissing THEN <<>> ELSE <<"endpoint-missing">>
     /\ missingNotices' = IF notFoundSeen' > 0 THEN 1 ELSE 0]_vars

\* C10 witness: a second 404 has been handled and the notice was logged once.
SecondNotFoundSilent ==
  /\ notFoundSeen = Max404
  /\ missingNotices = 1
  /\ log = <<>>

\* C11: in every list built from the empty list by add, toggle, remove and
\* submitEdit, every item that is not done precedes every done item, and the
\* done items are in non-increasing order of completedAt.
PendingFirstThenByCompletion ==
  \A i, j \in 1..Len(items) :
    i < j =>
      /\ items[i].done => items[j].done
      /\ (items[i].done /\ items[j].done)
           => CompletedKey(items[i]) >= CompletedKey(items[j])

\* C11 witness: the item added last stands, not done, before a completed item
\* that was added earlier.
NewItemBeforeCompleted ==
  /\ Len(items) = 2
  /\ items[1].id = UuidPool[2] /\ ~items[1].done
  /\ items[2].id = UuidPool[1] /\ items[2].done

\* C12: in every list built from the empty list by add, toggle, remove and
\* submitEdit an item is done exactly when its completedAt is set; a toggle to
\* done stamps the item with the time of the toggle, a toggle back clears the
\* stamp, and no other step changes an item's done or completedAt.
DoneIffCompletedAt ==
  /\ [](\A i \in 1..Len(items) :
          items[i].done <=> items[i].completedAt # Undefined)
  /\ [][\A id \in ItemIds(items) \cap ItemIds(items') :
          LET old == ItemById(items, id)
              new == ItemById(items', id)
          IN IF Toggle(id)
             THEN IF old.done
                  THEN ~new.done /\ new.completedAt = Undefined
                  ELSE new.done /\ new.completedAt = <<now'>>
             ELSE new.done = old.done /\ new.completedAt = old.completedAt]_vars

\* C12 witness: an item carries the time of its completion, which is later
\* than the time it was created at.
StampedAtCompletion ==
  /\ now > 0
  /\ \E i \in 1..Len(items) : items[i].done /\ items[i].completedAt = <<now>>

\* C13: after every step of add, toggle, remove, startEdit, cancelEdit and
\* submitEdit on a list built from the empty list, no two items of the list
\* have the same id.
IdsPairwiseDistinct ==
  \A i, j \in 1..Len(items) : items[i].id = items[j].id => i = j

\* C13 witness: every id the pool hands out is in the list, one of them on an
\* item whose text was edited.
AllIdsInUse ==
  /\ Len(items) = MaxStoreAdds
  /\ nextUuid = MaxStoreAdds
  /\ \E i \in 1..Len(items) : items[i].text = <<"b">>

\* C14: with the remote absent, a refresh's load that follows the completed
\* save of the list L returns the items of L that are not notebook-derived,
\* each one as it was saved and in the order of L.
RoundTripRemoteAbsent ==
  [][(LoadFetchDone("refresh", "value") /\ initialized /\ saves = EmptyBag)
       => items' = FilterManualTodos(items)]_vars

\* C14 witness: a refresh has just returned the saved manual item from the
\* local cache after the endpoint answered 404.
ManualItemBackFromCache ==
  /\ log = <<"refreshed">>
  /\ initialized
  /\ endpointMissing
  /\ remote = <<>>
  /\ items = <<ManualTodo>>
  /\ cache = ListPayload(<<ManualTodo>>)

\* what the callers of _loadTodos log when the load throws
CallerErrors == { "failed to bootstrap todos", "failed to refresh todos" }

\* C15: whatever the GET, the cache write and the cache read do, the load
\* returns a list to its caller and the caller's catch block never runs: a
\* GET that fails hands over to the cache read, a body without a list of items
\* gives the empty list, the cache read gives the list the cache holds or the
\* empty list when it holds none, and a cache read that throws gives the empty
\* list.
LoadNeverFailsOutward ==
  [][\A w \in Callers :
       /\ loads[w].pc \in {"none", "get", "cachewrite", "fetch"}
       /\ (loads[w].pc # "none" /\ loads'[w].pc = "none")
            => \A k \in 1..Len(log') : log'[k] \notin CallerErrors
       /\ LoadGetDone(w, "malformed") => LoadReturns(w, <<>>)
       /\ \A o \in {"404", "500", "throw"} :
            LoadGetDone(w, o) => loads'[w].pc = "fetch"
       /\ LoadCacheWriteDone(w, TRUE) => LoadReturns(w, loads[w].payload)
       /\ LoadFetchDone(w, "value")
            => LoadReturns(w, IF IsArray(cache) THEN cache.list ELSE <<>>)
       /\ LoadFetchDone(w, "throw") => LoadReturns(w, <<>>)]_vars

\* C15 witness: the initial load ended with the empty list after
\* _loadFromServer gave up and the cache read threw, and the panel is
\* initialized.
EmptyPanelAfterBothTiersFailed ==
  /\ log = <<"failed to load todos from local cache", "loaded">>
  /\ items = <<>>
  /\ initialized
  /\ loads["boot"].pc = "none"

\* C16: startEdit applied to an item that is done or notebook-derived opens
\* no edit session: the editing id and the edit text stay as they were.
BeginEditRejected ==
  [][\A i \in 1..Len(items) :
       ((items[i].done \/ IsNotebook(items[i])) /\ StartEdit(items[i]))
         => UNCHANGED << editingId, editText >>]_vars

\* C17: submitEdit in an open edit session with text that is not empty after
\* trimming replaces the text of the edited item by the trimmed text and
\* leaves its other fields, every other item and the order of the list as
\* they were; with text that is empty after trimming it is the step
\* cancelEdit takes.
CommitEditChangesTextOnly ==
  [][\A t \in EditInputs \cup {editText} :
       (editingId # <<>> /\ SubmitEdit(t)) =>
         IF Trim(t) = <<>>
         THEN items' = items /\ CancelEdit
         ELSE /\ Len(items') = Len(items)
              /\ \A i \in 1..Len(items) :
                   /\ items'[i].id = items[i].id
                   /\ items'[i].done = items[i].done
                   /\ items'[i].completedAt = items[i].completedAt
                   /\ items'[i].source = items[i].source
                   /\ items'[i].text =
                        IF items[i].id = editingId[1] THEN Trim(t) ELSE items[i].text
              /\ editingId' = <<>>
              /\ editText' = <<>>]_vars

\* C17 witness: of two items one has the text an edit gave it and is done,
\* the other has the text it was added with, and no edit session is open.
EditedItemAmongOthers ==
  /\ editingId = <<>>
  /\ \E i, j \in 1..Len(items) :
       /\ items[i].text = <<"b">> /\ items[i].done
       /\ items[j].text = <<"a">>

\* the list without its notebook-derived items, in the order of the list
RECURSIVE WithoutNotebook(_)
WithoutNotebook(list) ==
  IF list = <<>> THEN <<>>
  ELSE (IF Head(list).source = "notebook" THEN <<>> ELSE <<Head(list)>>)
         \o WithoutNotebook(Tail(list))

\* C18: the rows shown are the stored list when the flag is on and the stored
\* list without its notebook-derived items when it is off; a change of the flag
\* leaves the stored list, the loads and the saves as they were, so switching
\* the flag on shows every stored item again.
ShowFlagOnlyFilters ==
  /\ [](/\ VisibleItems(items, TRUE) = items
        /\ VisibleItems(items, FALSE) = WithoutNotebook(items)
        /\ Visible = IF showNotebookTodos THEN items ELSE WithoutNotebook(items))
  /\ [][\A b \in BOOLEAN :
          SetShowNotebookTodos(b)
            => /\ UNCHANGED << items, loads, saves, cache, remote >>
               /\ b => VisibleItems(items', showNotebookTodos') = items]_vars

\* C18 witness: the flag is off and the stored list holds a notebook item that
\* is not shown, next to a manual item that is.
HiddenNotebookItemKept ==
  /\ ~showNotebookTodos
  /\ HasNotebook(items)
  /\ Visible = <<ManualTodo>>
  /\ loads = [w \in Callers |-> NoLoad]

\* C19: every save carries the manual-only subset of the list it was called
\* with, and when its local cache write returns or throws, the save goes on to
\* its PUT with that payload; a save is never anywhere but before its local
\* write or before its PUT.
LocalFailureDoesNotBlockPut ==
  /\ [](\A s \in BagToSet(saves) : s.pc \in {"local", "put"})
  /\ [][/\ \A list \in ListUniverse :
            (AnyMutation(list) /\ initialized) =>
              LET call == [pc |-> "local", todos |-> WithoutNotebook(list)]
              IN CopiesIn(call, saves') = CopiesIn(call, saves) + 1
        /\ \A s \in BagToSet(saves) : \A written \in BOOLEAN :
            SaveLocalDone(s, written) =>
              LET put == [pc |-> "put", todos |-> s.todos]
              IN /\ CopiesIn(put, saves') = CopiesIn(put, saves) + 1
                 /\ BagCardinality(saves') = BagCardinality(saves)]_vars

\* C19 witness: the only save in flight, whose local cache write has just
\* thrown, is waiting for the answer to its PUT of the manual item.
PutAfterFailedLocalWrite ==
  /\ log = <<"failed to save todos locally">>
  /\ cache # ListPayload(<<ManualTodo>>)
  /\ saves = SetToBag({ [pc |-> "put", todos |-> <<ManualTodo>>] })

\* the place of an id in the order crypto.randomUUID() handed the ids out
CreationOrder(id) == CHOOSE k \in 1..Len(UuidPool) : UuidPool[k] = id

\* C20: in every list built from the empty list by add and toggle, the items
\* that are not done stand in decreasing order of creation.
PendingMostRecentFirst ==
  \A i, j \in 1..Len(items) :
    (i < j /\ ~items[i].done /\ ~items[j].done)
      => CreationOrder(items[i].id) > CreationOrder(items[j].id)

\* the initial load ends in this step without a snapshot: the GET had failed,
\* and the cache read throws or finds nothing that is a list
InitialLoadFindsNothing ==
  \/ LoadFetchDone("boot", "throw")
  \/ LoadFetchDone("boot", "value") /\ ~IsArray(cache)

\* C21: when the initial load ends without a snapshot from either tier and
\* the user has changed nothing, the step issues no save.
NoEmptyBootstrapSave ==
  [][(InitialLoadFindsNothing /\ items = <<>>) => saves' = saves]_vars

\* the changes of the refresh state the claim allows
RefreshTransitions ==
  { <<"idle", "refreshing">>, <<"completed", "refreshing">>,
    <<"refreshing", "completed">>, <<"refreshing", "idle">>,
    <<"completed", "idle">> }

\* C22: the refresh state changes only along the allowed transitions; at
\* most one completion timer is pending, it is the one the component's ref
\* holds, and it is pending only while the state is completed; a click on the
\* refresh button leaves no timer pending.
RefreshCycleOrderly ==
  /\ [](/\ Cardinality(timers) <= 1
        /\ timers = timerRef
        /\ timers # {} => refreshState = "completed")
  /\ [][/\ refreshState' # refreshState
            => <<refreshState, refreshState'>> \in RefreshTransitions
        /\ ClickRefresh => timers' = {}
        /\ \A h \in timers : TimerFire(h) => refreshState = "completed"]_vars

\* C22 witness: a refresh has completed while the panel is attached and its
\* completion timer is the one timer pending.
CompletionTimerPending ==
  /\ mounted
  /\ refreshState = "completed"
  /\ Cardinality(timers) = 1
  /\ timerRef = timers
  /\ loads["refresh"].pc = "none"

\* C23: a refresh that is refreshing leaves that state at some later time,
\* and a refresh of the attached panel that is completed leaves that state at
\* some later time, for idle unless the user clicks the refresh button again,
\* or the panel is detached.
RefreshReturnsToIdle ==
  /\ (refreshState = "refreshing") ~> (refreshState # "refreshing")
  /\ (mounted /\ refreshState = "completed")
       ~> (refreshState = "idle" \/ refreshState = "refreshing" \/ ~mounted)

\* C23 witness: a refresh whose GET failed waits for the cache read while as
\* many saves are in flight as the bound allows.
RefreshWaitingBehindSaves ==
  /\ mounted
  /\ refreshState = "refreshing"
  /\ loads["refresh"].pc = "fetch"
  /\ BagCardinality(saves) = MaxSaves

\* the remote failures that are not a 404
OtherFailures == {"500", "throw"}

\* C24: a GET that fails with an error that is not a 404 logs the load error,
\* leaves the endpoint-missing flag and the notice count alone and hands the
\* load over to the cache read; a PUT that fails so logs the save error and
\* leaves the flag, the notice count and the local cache alone.
OtherFailuresAlwaysLogged ==
  [][/\ \A w \in Callers : \A o \in OtherFailures :
          LoadGetDone(w, o)
            => /\ log' = <<"failed to load todos from server">>
               /\ UNCHANGED << endpointMissing, missingNotices, cache >>
               /\ loads'[w].pc = "fetch"
     /\ \A s \in BagToSet(saves) : \A o \in OtherFailures :
          SavePutDone(s, o)
            => /\ log' = <<"failed to save todos to server">>
               /\ UNCHANGED << endpointMissing, missingNotices, cache >>]_vars

\* C24 witness: a PUT has just failed with an error that is not a 404 after
\* an earlier 404 set the flag; the error is logged and the local cache holds
\* the manual item.
PutFailureLoggedCacheKept ==
  /\ log = <<"failed to save todos to server">>
  /\ endpointMissing
  /\ cache = ListPayload(<<ManualTodo>>)
  /\ remote = <<>>

\* C25: whenever an edit session is open, its id is the id of an item of the
\* list that is manual and not done.
EditSessionOnPendingManualItem ==
  editingId # <<>> =>
    \E i \in 1..Len(items) :
      /\ items[i].id = editingId[1]
      /\ ~IsNotebook(items[i])
      /\ ~items[i].done

====
